---- MODULE Spec2Model ----
(***************************************************************************)
(* Model of two components of rqlite:                                      *)
(*   - auto/restore Downloader.Do (the restore fetcher), isGzip and the    *)
(*     countingWriterAt it writes through;                                 *)
(*   - snapshot Upgrade (7.x snapshot directory -> 8.x snapshot            *)
(*     directory), getNewest7Snapshot and raftMetaSlice.                   *)
(* Bytes are naturals, files are sequences of bytes, a directory tree is  *)
(* a record.  Every filesystem step of Upgrade is one action, so that a    *)
(* crash can fall between any two of them.                                 *)
(***************************************************************************)
EXTENDS Integers, Sequences, FiniteSets, TLC

VARIABLES
    \* ---- Downloader.Do ----
    fpc,          \* position of the Do invocation
    payload,      \* the payload P the remote object stands for
    mode,         \* "gzip": the object is P compressed; "raw": it is P
    written,      \* indices of the object's parts WriteAt has stored
    stagingExists,\* the temporary file is on disk
    stagingOpen,  \* its handle f is open
    staging,      \* its bytes
    cwSet,        \* cw != nil
    cwCount,      \* cw.count
    fpos,         \* read position of f
    compressed,   \* result of isGzip
    sink,         \* bytes written to w
    fret,         \* named result err of Do: "none", "nil" or "err"
    dl,           \* outcome of storageClient.Download: "none", "ok", "fail"
    wfault,       \* a write to w failed in this invocation
    nTemp,        \* os.CreateTemp calls that made a file in this invocation
    statOK, statFail, statBytes,   \* the expvar map "downloader"
    ok0, fail0, bytes0,            \* its values when the invocation began
    \* ---- concurrency ----
    wr,           \* the storage client's goroutines inside cw.WriteAt
    conc,         \* Do invocations running side by side, and their results
    \* ---- getNewest7Snapshot on its own ----
    selIn,        \* the records of the directory's snapshots
    selOut,       \* what it returned (NoMeta before the call)
    \* ---- Upgrade ----
    upc,          \* position of the Upgrade invocation
    old, tmp, new,\* the three directory trees: old, tmpName(new), new
    oldMeta,      \* local oldMeta
    rd,           \* bytes the gzip reader still has to deliver, and its error
    handles,      \* files this invocation holds open
    uret,         \* result of Upgrade: "none", "nil" or an error kind
    branch,       \* which path of lines 37-62 the invocation took
    faulted,      \* a filesystem call failed in this invocation
    evs,          \* steps of lines 124-139 this invocation has completed
    old0, new0,   \* the trees before the first invocation
    newC,         \* new when the current invocation began
    oldK,         \* old when it began: "absent", "empty" or "nonempty"
    tmpK,         \* tmpName(new) existed when it began
    oldSame,      \* no step of the current invocation has changed old
    crashAt,      \* the phase the latest crash cut short, or "none"
    done,         \* the trees left by the first successful return, once set
    again,        \* the current invocation began after a successful return
    lastPost      \* the invocation before this one failed after its rename

fetchVars == <<fpc, payload, mode, written, stagingExists, stagingOpen, staging,
               cwSet, cwCount, fpos, compressed, sink, fret, dl, wfault, nTemp>>
statVars == <<statOK, statFail, statBytes>>
stat0Vars == <<ok0, fail0, bytes0>>
concVars == <<wr, conc>>
selVars == <<selIn, selOut>>
fsVars == <<old, tmp, new>>
upLocals == <<oldMeta, rd, handles, uret, branch, faulted, evs>>
upHist == <<old0, new0, newC, oldK, tmpK, oldSame, crashAt, done, again, lastPost>>
upVars == <<upc, fsVars, upLocals, upHist>>
vars == <<fetchVars, statVars, stat0Vars, concVars, concVars, selVars, upVars>>

----
\* Bounds of the model.
MaxPayloadLen == 3   \* longest payload P handed to Do
MaxCalls == 2        \* Do invocations between two ResetStats
MaxTerm == 2         \* largest Term of a legacy snapshot under old
MaxSnaps == 3        \* most snapshots in the directory getNewest7Snapshot reads
SelMaxTerm == 2      \* largest Term among them
SelMaxIndex == 2     \* largest Index among them
PartSize == 8        \* bytes of the remote object handed to one WriteAt
NumWorkers == 2      \* goroutines of the storage client calling WriteAt
NumProcs == 2        \* Do invocations running side by side

\* The bytes payloads are made of: the three bytes of gzipMagic and 'A'.
Bytes == {31, 139, 8, 65}

Min(a, b) == IF a < b THEN a ELSE b
Max(a, b) == IF a < b THEN b ELSE a

SeqsUpTo(S, n) == UNION {[1..k -> S] : k \in 0..n}

Drop(s, n) == SubSeq(s, n + 1, Len(s))
Take(s, n) == SubSeq(s, 1, Min(n, Len(s)))

----
\* compress/gzip, as the two programs use it.  A member is a 10-byte header
\* (ID1 ID2 CM FLG MTIME*4 XFL OS), a deflate body and a trailer (CRC32,
\* ISIZE).  The body is one stored block (BFINAL=1/BTYPE=00, LEN, NLEN,
\* bytes); LEN, NLEN, CRC32 and ISIZE are one byte wide here.

gzipMagic == <<31, 139, 8>>

gzipHeaderLen == 10

RECURSIVE Checksum(_)
Checksum(p) == IF p = <<>> THEN 0 ELSE (p[1] + Checksum(Tail(p))) % 256

Gzip(p) ==
    gzipMagic \o <<0, 0, 0, 0, 0, 0, 255>>
              \o <<1, Len(p), 255 - Len(p)>> \o p
              \o <<Checksum(p), Len(p)>>

\* gzip.NewReader(r) reads the header and fails when it is short or wrong.
gzipNewReaderErr(s) ==
    \/ Len(s) < gzipHeaderLen
    \/ Take(s, 3) # gzipMagic
    \/ s[4] # 0

\* What reading a gzip.Reader to its end yields: the bytes it delivers before
\* it stops, and whether it stops with an error (a stream that ends early,
\* a corrupt block or trailer, bytes after the member that are no header).
gzipReadAll(s) ==
    LET b == Drop(s, gzipHeaderLen) IN
    IF Len(b) < 3 \/ b[1] # 1 \/ b[2] + b[3] # 255
    THEN [data |-> <<>>, err |-> TRUE]
    ELSE LET n == b[2]
             d == Take(Drop(b, 3), n)
             t == Drop(b, 3 + n)
         IN IF Len(d) < n THEN [data |-> d, err |-> TRUE]
            ELSE [data |-> d,
                  err |-> t # <<Checksum(d), n>>]

----
\* ---------------------------------------------------------------------
\* auto/restore/downloader.go
\* ---------------------------------------------------------------------

Payloads == SeqsUpTo(Bytes, MaxPayloadLen)


\* The bytes of the remote object.
Object(p, m) == IF m = "gzip" THEN Gzip(p) ELSE p

NumParts(d) == (Len(d) + PartSize - 1) \div PartSize
Part(d, i) == SubSeq(d, (i - 1) * PartSize + 1, Min(i * PartSize, Len(d)))

\* (*os.File).WriteAt: the gap before off, if any, reads as zeros.
fileWriteAt(f, p, off) ==
    [i \in 1..Max(Len(f), off + Len(p)) |->
        IF i > off /\ i <= off + Len(p) THEN p[i - off]
        ELSE IF i <= Len(f) THEN f[i] ELSE 0]

\* isGzip: Seek(0), Read of len(gzipMagic) bytes, Seek(0), compare.  Read on
\* a file at its end returns 0, io.EOF; a short read returns before the
\* second Seek.
isGzip(data) ==
    LET n == Min(Len(gzipMagic), Len(data)) IN
    IF n = 0 THEN [compressed |-> FALSE, err |-> TRUE, pos |-> 0]
    ELSE IF n # Len(gzipMagic)
         THEN [compressed |-> FALSE, err |-> FALSE, pos |-> n]
         ELSE [compressed |-> Take(data, n) = gzipMagic, err |-> FALSE, pos |-> 0]

\* ResetStats.
ResetStats ==
    /\ fpc = "idle"
    /\ statOK' = 0 /\ statFail' = 0 /\ statBytes' = 0
    /\ UNCHANGED <<fetchVars, stat0Vars, concVars, selVars, upVars>>

\* Variant of the deferred function: the byte count is added whatever err is.
DoDeferStats_BytesAlways(err, set, count, s) ==
    [ok |-> IF err = "nil" THEN s.ok + 1 ELSE s.ok,
     fail |-> IF err = "nil" THEN s.fail ELSE s.fail + 1,
     bytes |-> IF set THEN s.bytes + count ELSE s.bytes]

\* Variant of the deferred function: a failed call is not counted.
DoDeferStats_NoFail(err, set, count, s) ==
    IF err = "nil"
    THEN [ok |-> s.ok + 1, fail |-> s.fail,
          bytes |-> IF set THEN s.bytes + count ELSE s.bytes]
    ELSE s

\* The deferred function of Do: the counters after it ran.
DoDeferStats(err, set, count, s) ==
    IF err = "nil"
    THEN [ok |-> s.ok + 1, fail |-> s.fail,
          bytes |-> IF set THEN s.bytes + count ELSE s.bytes]
    ELSE [ok |-> s.ok, fail |-> s.fail + 1, bytes |-> s.bytes]

\* Do is called; os.CreateTemp succeeds (lines 59-83).
DoCreateTemp ==
    /\ fpc = "idle"
    /\ statOK + statFail < MaxCalls
    /\ \E p \in Payloads, m \in {"gzip", "raw"} :
          /\ payload' = p
          /\ mode' = m
    /\ ok0' = statOK /\ fail0' = statFail /\ bytes0' = statBytes
    /\ stagingExists' = TRUE /\ stagingOpen' = TRUE /\ staging' = <<>>
    /\ cwSet' = TRUE /\ cwCount' = 0
    /\ written' = {} /\ fpos' = 0 /\ compressed' = FALSE
    /\ sink' = <<>> /\ fret' = "none" /\ dl' = "none" /\ wfault' = FALSE
    /\ nTemp' = nTemp + 1
    /\ fpc' = "download"
    /\ UNCHANGED <<statVars, concVars, selVars, upVars>>

\* Do is called; os.CreateTemp fails (lines 73-76).
DoCreateTempFail ==
    /\ fpc = "idle"
    /\ statOK + statFail < MaxCalls
    /\ \E p \in Payloads, m \in {"gzip", "raw"} :
          /\ payload' = p
          /\ mode' = m
    /\ ok0' = statOK /\ fail0' = statFail /\ bytes0' = statBytes
    /\ stagingExists' = FALSE /\ stagingOpen' = FALSE /\ staging' = <<>>
    /\ cwSet' = FALSE /\ cwCount' = 0
    /\ written' = {} /\ fpos' = 0 /\ compressed' = FALSE
    /\ sink' = <<>> /\ fret' = "err" /\ dl' = "none" /\ wfault' = FALSE
    /\ nTemp' = nTemp
    /\ fpc' = "stats"
    /\ UNCHANGED <<statVars, concVars, selVars, upVars>>

\* countingWriterAt.WriteAt, called by the storage client for one part of
\* the object; the parts may arrive in any order.
WriteAt ==
    /\ fpc = "download"
    /\ \E i \in 1..NumParts(Object(payload, mode)) \ written :
          LET p == Part(Object(payload, mode), i) IN
          /\ staging' = fileWriteAt(staging, p, (i - 1) * PartSize)
          /\ cwCount' = cwCount + Len(p)
          /\ written' = written \cup {i}
    /\ UNCHANGED <<nTemp, fpc, payload, mode, stagingExists, stagingOpen, cwSet, fpos,
                   compressed, sink, fret, dl, wfault>>
    /\ UNCHANGED <<statVars, stat0Vars, concVars, selVars, upVars>>

\* storageClient.Download returns nil: every part has been written.
DownloadOK ==
    /\ fpc = "download"
    /\ written = 1..NumParts(Object(payload, mode))
    /\ dl' = "ok"
    /\ fpc' = "sniff"
    /\ UNCHANGED <<nTemp, payload, mode, written, stagingExists, stagingOpen, staging,
                   cwSet, cwCount, fpos, compressed, sink, fret, wfault>>
    /\ UNCHANGED <<statVars, stat0Vars, concVars, selVars, upVars>>

\* Variant of lines 84-87: the error of Download is dropped and Do goes on.
DownloadFail_Ignored ==
    /\ fpc = "download"
    /\ dl' = "fail"
    /\ fpc' = "sniff"
    /\ UNCHANGED <<nTemp, payload, mode, written, stagingExists, stagingOpen,
                   staging, cwSet, cwCount, fpos, compressed, sink, fret, wfault>>
    /\ UNCHANGED <<statVars, stat0Vars, concVars, selVars, upVars>>

\* storageClient.Download returns an error (the transfer failed, or ctx
\* expired), after any number of parts (lines 84-87).
DownloadFail ==
    /\ fpc = "download"
    /\ dl' = "fail"
    /\ fret' = "err"
    /\ fpc' = "defer"
    /\ UNCHANGED <<nTemp, payload, mode, written, stagingExists, stagingOpen, staging,
                   cwSet, cwCount, fpos, compressed, sink, wfault>>
    /\ UNCHANGED <<statVars, stat0Vars, concVars, selVars, upVars>>

\* Lines 89-93.
DoIsGzip ==
    /\ fpc = "sniff"
    /\ LET r == isGzip(staging) IN
          /\ fpos' = r.pos
          /\ compressed' = r.compressed
          /\ fret' = IF r.err THEN "err" ELSE fret
          /\ fpc' = IF r.err THEN "defer" ELSE "copy"
    /\ UNCHANGED <<nTemp, payload, mode, written, stagingExists, stagingOpen, staging,
                   cwSet, cwCount, sink, dl, wfault>>
    /\ UNCHANGED <<statVars, stat0Vars, concVars, selVars, upVars>>

\* What lines 95-112 hand to w when no write to w fails, and the result.
DoCopyResult(data, pos, isCompressed) ==
    LET rest == Drop(data, pos) IN
    IF isCompressed
    THEN IF gzipNewReaderErr(rest)
         THEN [out |-> <<>>, err |-> TRUE]
         ELSE [out |-> gzipReadAll(rest).data, err |-> gzipReadAll(rest).err]
    ELSE [out |-> rest, err |-> FALSE]

\* Lines 95-112 with every write to w succeeding.
DoCopy ==
    /\ fpc = "copy"
    /\ LET r == DoCopyResult(staging, fpos, compressed) IN
          /\ sink' = sink \o r.out
          /\ fret' = IF r.err THEN "err" ELSE "nil"
    /\ fpos' = Len(staging)
    /\ fpc' = "defer"
    /\ UNCHANGED <<nTemp, payload, mode, written, stagingExists, stagingOpen, staging,
                   cwSet, cwCount, compressed, dl, wfault>>
    /\ UNCHANGED <<statVars, stat0Vars, concVars, selVars, upVars>>

\* Lines 102-110 when a write to w fails: w holds a proper prefix.
DoCopyWriteFail ==
    /\ fpc = "copy"
    /\ LET r == DoCopyResult(staging, fpos, compressed) IN
          /\ r.out # <<>>
          /\ \E k \in 0..(Len(r.out) - 1) : sink' = sink \o Take(r.out, k)
    /\ fret' = "err"
    /\ wfault' = TRUE
    /\ fpos' = Len(staging)
    /\ fpc' = "defer"
    /\ UNCHANGED <<nTemp, payload, mode, written, stagingExists, stagingOpen, staging,
                   cwSet, cwCount, compressed, dl>>
    /\ UNCHANGED <<statVars, stat0Vars, concVars, selVars, upVars>>

\* Do returns: the deferred calls run, last deferred first (gzr.Close,
\* cancel, f.Close, os.Remove, the counters).
\* Variant of lines 77-78: the two defers in the other order, the file is
\* removed while f is still open.
DoClose_RemoveFirst ==
    /\ fpc = "defer"
    /\ stagingExists' = FALSE
    /\ fpc' = "remove"
    /\ UNCHANGED <<nTemp, payload, mode, written, stagingOpen, staging, cwSet,
                   cwCount, fpos, compressed, sink, fret, dl, wfault>>
    /\ UNCHANGED <<statVars, stat0Vars, concVars, selVars, upVars>>

\* Line 78, deferred: f.Close().
DoClose ==
    /\ fpc = "defer"
    /\ stagingOpen' = FALSE
    /\ fpc' = "remove"
    /\ UNCHANGED <<nTemp, payload, mode, written, stagingExists, staging, cwSet,
                   cwCount, fpos, compressed, sink, fret, dl, wfault>>
    /\ UNCHANGED <<statVars, stat0Vars, concVars, selVars, upVars>>

\* Line 77, deferred: os.Remove(f.Name()).
DoRemove ==
    /\ fpc = "remove"
    /\ stagingExists' = FALSE
    /\ fpc' = "stats"
    /\ UNCHANGED <<nTemp, payload, mode, written, stagingOpen, staging, cwSet,
                   cwCount, fpos, compressed, sink, fret, dl, wfault>>
    /\ UNCHANGED <<statVars, stat0Vars, concVars, selVars, upVars>>

\* Lines 61-70, deferred: the counters; Do has returned.
DoReturn ==
    /\ fpc = "stats"
    /\ LET s == DoDeferStats(fret, cwSet, cwCount,
                             [ok |-> statOK, fail |-> statFail, bytes |-> statBytes])
       IN /\ statOK' = s.ok
          /\ statFail' = s.fail
          /\ statBytes' = s.bytes
    /\ fpc' = "returned"
    /\ UNCHANGED <<nTemp, payload, mode, written, stagingExists, stagingOpen,
                   staging, cwSet, cwCount, fpos, compressed, sink, fret, dl,
                   wfault>>
    /\ UNCHANGED <<stat0Vars, concVars, selVars, upVars>>

\* The caller goes on; the invocation's locals are gone.
DoDone ==
    /\ fpc = "returned"
    /\ fpc' = "idle"
    /\ payload' = <<>> /\ mode' = "raw" /\ written' = {}
    /\ staging' = <<>> /\ cwSet' = FALSE /\ cwCount' = 0
    /\ fpos' = 0 /\ compressed' = FALSE /\ sink' = <<>>
    /\ fret' = "none" /\ dl' = "none" /\ wfault' = FALSE /\ nTemp' = 0
    /\ ok0' = statOK /\ fail0' = statFail /\ bytes0' = statBytes
    /\ UNCHANGED <<stagingExists, stagingOpen>>
    /\ UNCHANGED <<statVars, concVars, selVars, upVars>>

----
\* ---------------------------------------------------------------------
\* auto/restore/downloader.go: a storage client that downloads ranges in
\* parallel, and Do invocations running side by side
\* ---------------------------------------------------------------------

Workers == 1..NumWorkers

\* A goroutine of the storage client: the part it is writing (0 when it is
\* outside WriteAt) and the value of c.count it has loaded.
WrIdle == [w \in Workers |-> [part |-> 0, load |-> 0]]

\* countingWriterAt.WriteAt, line 121 and the load of line 122: a goroutine
\* writes a part no other has taken and reads c.count.  Nothing orders the
\* goroutines' accesses to c.count.  The goroutines are interchangeable:
\* the idle one of least index takes the part.
WriteAtWrite ==
    /\ fpc = "download"
    /\ \E w \in Workers :
          /\ wr[w].part = 0
          /\ \A v \in 1..(w - 1) : wr[v].part # 0
          /\ \E i \in (1..NumParts(Object(payload, mode)))
                          \ (written \cup {wr[v].part : v \in Workers}) :
                /\ staging' = fileWriteAt(staging, Part(Object(payload, mode), i),
                                          (i - 1) * PartSize)
                /\ wr' = [wr EXCEPT ![w] = [part |-> i, load |-> cwCount]]
    /\ UNCHANGED <<nTemp, fpc, payload, mode, written, stagingExists, stagingOpen,
                   cwSet, cwCount, fpos, compressed, sink, fret, dl, wfault>>
    /\ UNCHANGED <<conc, statVars, stat0Vars, selVars, upVars>>

\* countingWriterAt.WriteAt, the store of line 122 and the return: c.count
\* becomes the loaded value plus n.
WriteAtCount ==
    /\ fpc = "download"
    /\ \E w \in Workers :
          /\ wr[w].part # 0
          /\ cwCount' = wr[w].load + Len(Part(Object(payload, mode), wr[w].part))
          /\ written' = written \cup {wr[w].part}
          /\ wr' = [wr EXCEPT ![w] = [part |-> 0, load |-> 0]]
    /\ UNCHANGED <<nTemp, fpc, payload, mode, stagingExists, stagingOpen, staging,
                   cwSet, fpos, compressed, sink, fret, dl, wfault>>
    /\ UNCHANGED <<conc, statVars, stat0Vars, selVars, upVars>>

Procs == 1..NumProcs

\* A Do invocation of its own goroutine: where it is, its named result err,
\* cw != nil and cw.count.
ConcIdle == [p \in Procs |-> [pc |-> "idle", err |-> "none", set |-> FALSE, count |-> 0]]

\* What lines 83-112 leave in err for the object (p, m), the download
\* succeeding or not.
DoResult(p, m, dlOK) ==
    LET g == isGzip(Object(p, m))
        c == DoCopyResult(Object(p, m), g.pos, g.compressed)
    IN IF dlOK /\ ~g.err /\ ~c.err THEN "nil" ELSE "err"

\* Lines 59-83 in one of the goroutines: os.CreateTemp succeeds or fails.
ConcCreateTemp ==
    /\ \E p \in Procs, ok \in BOOLEAN :
          /\ conc[p].pc = "idle"
          /\ conc' = [conc EXCEPT ![p] =
                         IF ok THEN [pc |-> "download", err |-> "none",
                                     set |-> TRUE, count |-> 0]
                         ELSE [pc |-> "stats", err |-> "err",
                               set |-> FALSE, count |-> 0]]
    /\ UNCHANGED <<wr, fetchVars, statVars, stat0Vars, selVars, upVars>>

\* The results lines 83-112 can leave: err, and cw.count.
DoResults ==
    {[err |-> DoResult(pl, m, dlOK),
      count |-> IF dlOK THEN Len(Object(pl, m)) ELSE 0] :
        pl \in Payloads, m \in {"gzip", "raw"}, dlOK \in BOOLEAN}

\* Lines 83-112 in one of the goroutines, on its own file: the download,
\* the check and the copy; then the deferred Close and Remove.
ConcBody ==
    /\ \E p \in Procs, r \in DoResults :
          /\ conc[p].pc = "download"
          /\ conc' = [conc EXCEPT ![p].pc = "stats",
                                  ![p].err = r.err,
                                  ![p].count = r.count]
    /\ UNCHANGED <<wr, fetchVars, statVars, stat0Vars, selVars, upVars>>

\* Lines 62-69 in one of the goroutines: stats.Add(numDownloadsOK, 1) or
\* stats.Add(numDownloadsFail, 1); expvar adds atomically.
ConcStats ==
    /\ \E p \in Procs :
          /\ conc[p].pc = "stats"
          /\ LET t == DoDeferStats(conc[p].err, FALSE, 0,
                                   [ok |-> statOK, fail |-> statFail,
                                    bytes |-> statBytes])
             IN /\ statOK' = t.ok
                /\ statFail' = t.fail
                /\ statBytes' = t.bytes
          /\ conc' = [conc EXCEPT ![p].pc =
                         IF conc[p].err = "nil" /\ conc[p].set
                         THEN "bytes" ELSE "returned"]
    /\ UNCHANGED <<wr, fetchVars, stat0Vars, selVars, upVars>>

\* Line 65 in one of the goroutines: stats.Add(numDownloadBytes, cw.count).
ConcBytes ==
    /\ \E p \in Procs :
          /\ conc[p].pc = "bytes"
          /\ statBytes' = statBytes + conc[p].count
          /\ conc' = [conc EXCEPT ![p].pc = "returned"]
    /\ UNCHANGED <<wr, fetchVars, statOK, statFail, stat0Vars, selVars, upVars>>

----
\* ---------------------------------------------------------------------
\* snapshot: raftMetaSlice and getNewest7Snapshot
\* ---------------------------------------------------------------------

\* Go's < on strings: bytewise, a proper prefix is smaller.  A string is
\* the sequence of its bytes.
RECURSIVE StrLess(_, _)
StrLess(s, t) ==
    IF t = <<>> THEN FALSE
    ELSE IF s = <<>> THEN TRUE
    ELSE IF s[1] # t[1] THEN s[1] < t[1]
    ELSE StrLess(Tail(s), Tail(t))

\* A decoded raft.SnapshotMeta; NoMeta stands for the nil pointer and for a
\* meta file that is not there, CorruptMeta for one that does not decode.
NoMeta == [k |-> "none", Term |-> 0, Index |-> 0, ID |-> <<>>]
CorruptMeta == [k |-> "corrupt", Term |-> 0, Index |-> 0, ID |-> <<>>]

Injective(s) == \A i, j \in DOMAIN s : i # j => s[i] # s[j]
Range(s) == {s[i] : i \in DOMAIN s}

\* Variant of Less: Term and Index only, no tie-break on ID.
Less_NoID(a, b) ==
    IF a.Term # b.Term THEN a.Term < b.Term ELSE a.Index < b.Index

\* raftMetaSlice.Less on two elements.
Less(a, b) ==
    IF a.Term # b.Term THEN a.Term < b.Term
    ELSE IF a.Index # b.Index THEN a.Index < b.Index
    ELSE StrLess(a.ID, b.ID)

\* sort.Sort on a short slice is an insertion sort: the element at the end
\* is swapped towards the front while it is Less than its left neighbour.
RECURSIVE sortInsert(_, _)
sortInsert(s, x) ==
    IF s # <<>> /\ Less(x, s[Len(s)])
    THEN Append(sortInsert(SubSeq(s, 1, Len(s) - 1), x), s[Len(s)])
    ELSE Append(s, x)

RECURSIVE sortSort(_)
sortSort(s) ==
    IF Len(s) <= 1 THEN s
    ELSE sortInsert(sortSort(SubSeq(s, 1, Len(s) - 1)), s[Len(s)])

\* Variant of Newest: the first element of the sorted slice.
Newest_First(s) == IF Len(s) = 0 THEN NoMeta ELSE sortSort(s)[1]

\* raftMetaSlice.Newest.
Newest(s) == IF Len(s) = 0 THEN NoMeta ELSE sortSort(s)[Len(s)]

\* The loop of getNewest7Snapshot over the directory entries, in the order
\* os.ReadDir lists them: an entry that is no directory or holds no meta
\* file is skipped, a meta file that does not decode ends the call.
RECURSIVE readMetas(_, _)
readMetas(o, order) ==
    IF order = <<>> THEN [err |-> FALSE, s |-> <<>>]
    ELSE LET e == o.ent[Head(order)] IN
         IF e.kind # "dir" \/ e.meta = NoMeta THEN readMetas(o, Tail(order))
         ELSE IF e.meta = CorruptMeta THEN [err |-> TRUE, s |-> <<>>]
         ELSE LET r == readMetas(o, Tail(order)) IN
              [err |-> r.err, s |-> IF r.err THEN <<>> ELSE <<e.meta>> \o r.s]

getNewest7Snapshot(o, order) ==
    LET r == readMetas(o, order) IN
    IF r.err THEN [err |-> TRUE, meta |-> NoMeta]
    ELSE [err |-> FALSE, meta |-> Newest(r.s)]

----
\* ---------------------------------------------------------------------
\* snapshot: Upgrade
\* ---------------------------------------------------------------------

\* Names of the 7.x snapshot directories under old; a snapshot's ID is the
\* name of its directory.
SnapIDs == {<<97>>, <<98>>}

\* The legacy state file: a 16-byte header, then the gzip stream.
v7HeaderLen == 16

\* Database images, and the database's validity check: a valid file begins
\* with the SQLite header string (two bytes here).
sqliteHeader == <<83, 81>>
GoodDB == sqliteHeader \o <<65>>
NotDB == <<65, 65, 65>>
IsValidSQLiteFile(f) == f.k = "bytes" /\ Take(f.b, Len(sqliteHeader)) = sqliteHeader

\* The bytes of the legacy state files the model places under old.
v7State(name) ==
    LET hdr == [i \in 1..v7HeaderLen |-> 0] IN
    CASE name = "good"   -> hdr \o Gzip(GoodDB)
      [] name = "notdb"  -> hdr \o Gzip(NotDB)
      [] name = "trunc"  -> Take(hdr \o Gzip(GoodDB), v7HeaderLen + gzipHeaderLen + 5)
      [] name = "short"  -> Take(hdr, 4)
StateNames == {"good", "notdb", "trunc", "short"}

V7Metas(id) == [k : {"rec"}, Term : 1..MaxTerm, Index : {1}, ID : {id}]

NoEntry == [kind |-> "none", meta |-> NoMeta, state |-> "none"]
FileEntry == [kind |-> "file", meta |-> NoMeta, state |-> "none"]
EmptyDir == [kind |-> "dir", meta |-> NoMeta, state |-> "none"]
DirEntries(id) ==
    [kind : {"dir"}, meta : {NoMeta, CorruptMeta} \cup V7Metas(id),
     state : {"none"} \cup StateNames]

AbsentOld == [exists |-> FALSE, ent |-> [id \in SnapIDs |-> NoEntry]]
OldRoots ==
    {AbsentOld} \cup
    {[exists |-> TRUE, ent |-> e] :
        e \in {f \in [SnapIDs -> UNION {DirEntries(id) : id \in SnapIDs}
                                  \cup {NoEntry, FileEntry}] :
                  \A id \in SnapIDs : f[id].meta.k = "rec" => f[id].meta.ID = id}}

\* A generation tree (new, or tmpName(new)): the root directory, generations/,
\* generations/<firstGeneration>/, one snapshot directory in it, and the
\* files meta.json and base.sqlite in the generation directory ("gen") or in
\* the snapshot directory ("snap").
Dirs == {"gen", "snap"}
metaFileName == "meta.json"
baseSqliteFile == "base.sqlite"
FileNames == {metaFileName, baseSqliteFile}
\* A file: absent, a file of bytes, or a meta.json holding a Meta.  snap is
\* the name of the snapshot directory, <<>> when there is none.
NoFile == [k |-> "none", b |-> <<>>, m |-> [SnapshotMeta |-> NoMeta, Full |-> FALSE]]
BytesFile(b) == [NoFile EXCEPT !.k = "bytes", !.b = b]
MetaFile(m) == [NoFile EXCEPT !.k = "meta", !.m = m]
NoFiles == [d \in Dirs |-> [n \in FileNames |-> NoFile]]
AbsentTree ==
    [exists |-> FALSE, gens |-> FALSE, gen |-> FALSE, snap |-> <<>>,
     files |-> NoFiles]

\* The new-format Meta written for a legacy record (lines 84-87).
newMeta(m) == [SnapshotMeta |-> m, Full |-> TRUE]

putFile(t, d, n, c) == [t EXCEPT !.files[d][n] = c]

\* A tree Upgrade built earlier for the snapshot id out of database image db.
BuiltTree(m, db) ==
    putFile(putFile([exists |-> TRUE, gens |-> TRUE, gen |-> TRUE, snap |-> m.ID,
                     files |-> NoFiles],
                    "snap", metaFileName, MetaFile(newMeta(m))),
            "gen", baseSqliteFile, BytesFile(db))

PreNew == BuiltTree([k |-> "rec", Term |-> 1, Index |-> 1, ID |-> <<122>>], GoodDB)
StaleTmp == BuiltTree([k |-> "rec", Term |-> 1, Index |-> 1, ID |-> <<122>>], <<83>>)

dirExists(t) == t.exists

\* dirIsEmpty(old): os.ReadDir lists nothing.
dirIsEmpty(o) == \A id \in DOMAIN o.ent : o.ent[id].kind = "none"

\* One unlink or rmdir of os.RemoveAll on a generation tree: a file, or a
\* directory that has become empty.
treeRemoveSteps(t) ==
    ({[t EXCEPT !.files[d][n] = NoFile] : d \in Dirs, n \in FileNames} \ {t})
    \cup (IF t.snap # <<>> /\ t.files["snap"] = NoFiles["snap"]
          THEN {[t EXCEPT !.snap = <<>>]} ELSE {})
    \cup (IF t.gen /\ t.snap = <<>> /\ t.files["gen"] = NoFiles["gen"]
          THEN {[t EXCEPT !.gen = FALSE]} ELSE {})
    \cup (IF t.gens /\ ~t.gen THEN {[t EXCEPT !.gens = FALSE]} ELSE {})
    \cup (IF t.exists /\ ~t.gens THEN {[t EXCEPT !.exists = FALSE]} ELSE {})

\* One unlink or rmdir of os.RemoveAll on old.
oldRemoveSteps(o) ==
    {[o EXCEPT !.ent[id] = NoEntry] :
        id \in {i \in SnapIDs : o.ent[i].kind = "file" \/ o.ent[i] = EmptyDir}}
    \cup {[o EXCEPT !.ent[id].meta = NoMeta] :
            id \in {i \in SnapIDs : o.ent[i].meta # NoMeta}}
    \cup {[o EXCEPT !.ent[id].state = "none"] :
            id \in {i \in SnapIDs : o.ent[i].state # "none"}}
    \cup (IF o.exists /\ dirIsEmpty(o) THEN {[o EXCEPT !.exists = FALSE]} ELSE {})

NoReader == [data |-> <<>>, err |-> FALSE]
NotDone == [set |-> FALSE, old |-> AbsentOld, tmp |-> AbsentTree, new |-> AbsentTree]

\* What an invocation finds at old.
oldKind(o) ==
    IF ~o.exists THEN "absent"
    ELSE IF \A id \in DOMAIN o.ent : o.ent[id].kind = "none" THEN "empty"
    ELSE "nonempty"

notUp == <<fetchVars, statVars, stat0Vars, concVars, selVars>>
callHist == <<old0, new0, newC, oldK, tmpK, oldSame, crashAt, again, lastPost>>

\* Upgrade returns r; the trees left by the first successful return are kept.
Return(r) ==
    /\ upc' = "returned"
    /\ uret' = r
    /\ handles' = {}
    /\ done' = IF r = "nil" /\ ~done.set
               THEN [set |-> TRUE, old |-> old', tmp |-> tmp', new |-> new']
               ELSE done

\* Upgrade(old, new, logger) is called.
UpgradeCall ==
    /\ upc = "idle"
    /\ upc' = "L30"
    /\ newC' = new /\ oldK' = oldKind(old) /\ tmpK' = tmp.exists
    /\ oldSame' = TRUE
    /\ again' = done.set
    /\ UNCHANGED <<fsVars, upLocals, old0, new0, crashAt, done, lastPost, notUp>>

\* Line 30.
UpCheckTmp ==
    /\ upc = "L30"
    /\ upc' = IF dirExists(tmp) THEN "L31" ELSE "L37"
    /\ UNCHANGED <<fsVars, upLocals, upHist, notUp>>

\* Line 31: one step of os.RemoveAll(newTmpDir).
UpRemoveTmp ==
    /\ upc = "L31"
    /\ \E t \in treeRemoveSteps(tmp) :
          /\ tmp' = t
          /\ upc' = IF t.exists THEN "L31" ELSE "L37"
    /\ UNCHANGED <<old, new, upLocals, upHist, notUp>>

\* Variants of lines 37-62: without the dirExists(new) test, without the
\* else branch for an old that does not exist, without the dirIsEmpty test.
TrivialCase_NoExistsCheck(o, n) ==
    IF dirExists(o)
    THEN IF dirIsEmpty(o) THEN "empty" ELSE "migrate"
    ELSE "absent"

TrivialCase_NoAbsentCheck(o, n) ==
    IF dirExists(o)
    THEN IF dirIsEmpty(o) THEN "empty"
         ELSE IF dirExists(n) THEN "exists" ELSE "migrate"
    ELSE "migrate"

TrivialCase_NoEmptyCheck(o, n) ==
    IF dirExists(o)
    THEN IF dirExists(n) THEN "exists" ELSE "migrate"
    ELSE "absent"

\* Lines 37-62: which case the call is.
TrivialCase(o, n) ==
    IF dirExists(o)
    THEN IF dirIsEmpty(o) THEN "empty"
         ELSE IF dirExists(n) THEN "exists" ELSE "migrate"
    ELSE "absent"

UpTrivial ==
    /\ upc = "L37"
    /\ LET c == TrivialCase(old, new) IN
          /\ branch' = c
          /\ IF c = "absent"
             THEN /\ UNCHANGED fsVars
                  /\ Return("nil")
             ELSE /\ upc' = CASE c = "empty" -> "L45"
                              [] c = "exists" -> "L53"
                              [] c = "migrate" -> "L65"
                  /\ UNCHANGED <<uret, handles, done>>
    /\ UNCHANGED <<fsVars, oldMeta, rd, faulted, evs, callHist, notUp>>

hist0 == <<old0, new0, newC, oldK, tmpK, crashAt, again, lastPost>>

\* Line 45: one step of os.RemoveAll(old) on the empty old; nil once it is
\* gone.
UpRemoveOldEmpty ==
    /\ upc = "L45"
    /\ \E o \in oldRemoveSteps(old) :
          /\ old' = o
          /\ UNCHANGED <<tmp, new>>
          /\ IF o.exists
             THEN UNCHANGED <<upc, uret, handles, done>>
             ELSE Return("nil")
    /\ oldSame' = (oldSame /\ old' = old)
    /\ UNCHANGED <<oldMeta, rd, branch, faulted, evs, hist0, notUp>>

\* Variant of line 53: os.RemoveAll(new) in place of os.RemoveAll(old).
UpRemoveOldExists_RemovesNew ==
    /\ upc = "L53"
    /\ \E t \in treeRemoveSteps(new) :
          /\ new' = t
          /\ UNCHANGED <<old, tmp>>
          /\ IF t.exists
             THEN UNCHANGED <<upc, uret, handles, done>>
             ELSE Return("nil")
    /\ oldSame' = (oldSame /\ old' = old)
    /\ UNCHANGED <<oldMeta, rd, branch, faulted, evs, hist0, notUp>>

\* Line 53: one step of os.RemoveAll(old) when new exists; nil once old is
\* gone.
UpRemoveOldExists ==
    /\ upc = "L53"
    /\ \E o \in oldRemoveSteps(old) :
          /\ old' = o
          /\ UNCHANGED <<tmp, new>>
          /\ IF o.exists
             THEN UNCHANGED <<upc, uret, handles, done>>
             ELSE Return("nil")
    /\ oldSame' = (oldSame /\ old' = old)
    /\ UNCHANGED <<oldMeta, rd, branch, faulted, evs, hist0, notUp>>

\* Line 65: os.MkdirAll(newTmpDir).
UpMkdirTmp ==
    /\ upc = "L65"
    /\ tmp' = [tmp EXCEPT !.exists = TRUE]
    /\ upc' = "L69"
    /\ UNCHANGED <<old, new, upLocals, upHist, notUp>>

\* The orders in which os.ReadDir may list the entries of old.
RECURSIVE Perms(_)
Perms(S) ==
    IF S = {} THEN {<<>>}
    ELSE UNION {{<<x>> \o p : p \in Perms(S \ {x})} : x \in S}

ReadDirOrders(o) == Perms({id \in DOMAIN o.ent : o.ent[id].kind # "none"})

\* getNewest7Snapshot on its own: a directory whose entries, named 1, 2, ...,
\* are snapshot directories holding the records of selIn.
SelRoot(recs) ==
    [exists |-> TRUE,
     ent |-> [i \in 1..Len(recs) |-> [kind |-> "dir", meta |-> recs[i], state |-> "good"]]]

SelIDs == {<<97>>, <<97, 98>>}
SelMetas == [k : {"rec"}, Term : 1..SelMaxTerm, Index : 1..SelMaxIndex, ID : SelIDs]


\* getNewest7Snapshot is called on the directory, os.ReadDir listing its
\* entries in some order.
SelGetNewest ==
    /\ selOut = NoMeta
    /\ \E order \in ReadDirOrders(SelRoot(selIn)) :
          selOut' = getNewest7Snapshot(SelRoot(selIn), order).meta
    /\ UNCHANGED <<selIn, fetchVars, statVars, stat0Vars, concVars, upVars>>

\* The handle fh of the meta file of snapshot directory id (line 166).
fhName(id) == IF id = <<97>> THEN "fh-a" ELSE "fh-b"

\* The meta files the loop of getNewest7Snapshot opens (line 166), listing
\* the entries in the given order: every one up to the first that does not
\* decode.
RECURSIVE openedMetas(_, _)
openedMetas(o, order) ==
    IF order = <<>> THEN {}
    ELSE LET e == o.ent[Head(order)] IN
         IF e.kind # "dir" \/ e.meta = NoMeta THEN openedMetas(o, Tail(order))
         ELSE IF e.meta = CorruptMeta THEN {fhName(Head(order))}
         ELSE {fhName(Head(order))} \cup openedMetas(o, Tail(order))

\* Variant of line 170: fh is not closed.
closeDeferred_Leak(hs, opened) == hs

\* Line 170: every fh is closed by its deferred Close when
\* getNewest7Snapshot returns.
closeDeferred(hs, opened) == hs \ opened

\* Lines 69-77.
UpGetNewest ==
    /\ upc = "L69"
    /\ \E order \in ReadDirOrders(old) :
          LET r == getNewest7Snapshot(old, order)
              opened == openedMetas(old, order) IN
          /\ UNCHANGED fsVars
          /\ IF r.err THEN Return("err71") /\ UNCHANGED oldMeta
             ELSE IF r.meta = NoMeta THEN Return("err76") /\ UNCHANGED oldMeta
             ELSE /\ oldMeta' = r.meta
                  /\ upc' = "L81"
                  /\ handles' = closeDeferred(handles \cup opened, opened)
                  /\ UNCHANGED <<uret, done>>
    /\ UNCHANGED <<rd, branch, faulted, evs, callHist, notUp>>

\* os.MkdirAll(newSnapshotPath) makes the missing directories one by one.
mkdirNext(t, id) ==
    IF ~t.gens THEN [t EXCEPT !.gens = TRUE]
    ELSE IF ~t.gen THEN [t EXCEPT !.gen = TRUE]
    ELSE [t EXCEPT !.snap = id]

\* Lines 80-83: one mkdir of os.MkdirAll(newSnapshotPath).
UpMkdirSnap ==
    /\ upc = "L81"
    /\ tmp' = mkdirNext(tmp, oldMeta.ID)
    /\ upc' = IF tmp'.snap # <<>> THEN "L88" ELSE "L81"
    /\ UNCHANGED <<old, new, upLocals, upHist, notUp>>

\* Variant: the meta file written beside the base file.
newMetaDir_Gen == "gen"

\* The directory writeMeta is handed (line 88) and the directory of
\* newSqliteBasePath (line 95).
newMetaDir == "snap"
newSqliteBaseDir == "gen"

\* writeMeta(dir, meta): the file metaFileName in dir holds meta.
writeMeta(t, d, m) == putFile(t, d, metaFileName, MetaFile(m))

\* Variant of lines 84-90: the tree is built in place, the meta file is
\* written under new.
UpWriteMeta_InPlace ==
    /\ upc = "L88"
    /\ new' = writeMeta(tmp, newMetaDir, newMeta(oldMeta))
    /\ upc' = "L96"
    /\ UNCHANGED <<old, tmp, upLocals, upHist, notUp>>

\* Lines 84-90: writeMeta(newSnapshotPath, newMeta).
UpWriteMeta ==
    /\ upc = "L88"
    /\ tmp' = writeMeta(tmp, newMetaDir, newMeta(oldMeta))
    /\ upc' = "L96"
    /\ UNCHANGED <<old, new, upLocals, upHist, notUp>>

\* The handles the function literal of lines 93-129 opens, each closed by a
\* deferred Close when it returns (lines 100, 108, 118).
closureHandles == {"newSqliteFd", "stateFd", "gzipReader"}

\* Lines 95-100: os.Create(newSqliteBasePath).
UpCreateBase ==
    /\ upc = "L96"
    /\ tmp' = putFile(tmp, newSqliteBaseDir, baseSqliteFile, BytesFile(<<>>))
    /\ handles' = handles \cup {"newSqliteFd"}
    /\ upc' = "L104"
    /\ UNCHANGED <<old, new, oldMeta, rd, uret, branch, faulted, evs, upHist, notUp>>

\* Lines 103-118: open old/<ID>/state.bin, seek past the header, open the
\* gzip reader.
UpOpenState ==
    /\ upc = "L104"
    /\ UNCHANGED fsVars
    /\ LET e == old.ent[oldMeta.ID] IN
       IF e.kind # "dir" \/ e.state = "none"
       THEN Return("err106") /\ UNCHANGED rd
       ELSE LET s == Drop(v7State(e.state), v7HeaderLen) IN
            IF gzipNewReaderErr(s)
            THEN Return("err116") /\ UNCHANGED rd
            ELSE /\ rd' = gzipReadAll(s)
                 /\ handles' = handles \cup closureHandles
                 /\ upc' = "L119"
                 /\ UNCHANGED <<uret, done>>
    /\ UNCHANGED <<oldMeta, branch, faulted, evs, callHist, notUp>>

\* Line 119: io.Copy(newSqliteFd, gzipReader), one byte at a time.
UpCopy ==
    /\ upc = "L119"
    /\ IF rd.data # <<>>
       THEN /\ tmp' = putFile(tmp, newSqliteBaseDir, baseSqliteFile,
                       BytesFile(Append(tmp.files[newSqliteBaseDir][baseSqliteFile].b,
                                        Head(rd.data))))
            /\ rd' = [rd EXCEPT !.data = Tail(rd.data)]
            /\ UNCHANGED <<old, new, upc, uret, handles, done>>
       ELSE /\ UNCHANGED <<fsVars, rd>>
            /\ IF rd.err THEN Return("err120")
               ELSE upc' = "L125" /\ UNCHANGED <<uret, handles, done>>
    /\ UNCHANGED <<oldMeta, branch, faulted, evs, callHist, notUp>>

\* Variant of lines 124-131: no validity check.
UpValidate_Skip ==
    /\ upc = "L125"
    /\ UNCHANGED fsVars
    /\ upc' = "L134"
    /\ handles' = handles \ closureHandles
    /\ UNCHANGED <<uret, done>>
    /\ UNCHANGED <<oldMeta, rd, branch, faulted, evs, callHist, notUp>>

\* Variant of lines 124-136: the validity check made on the file after the
\* rename.
UpValidate_AfterRename ==
    /\ upc = "L125"
    /\ new' = tmp /\ tmp' = AbsentTree /\ UNCHANGED old
    /\ IF IsValidSQLiteFile(tmp.files[newSqliteBaseDir][baseSqliteFile])
       THEN /\ upc' = "L137"
            /\ handles' = handles \ closureHandles
            /\ evs' = evs \cup {"rename", "valid"}
            /\ UNCHANGED <<uret, done>>
       ELSE Return("err126") /\ evs' = evs \cup {"rename"}
    /\ UNCHANGED <<oldMeta, rd, branch, faulted, callHist, notUp>>

\* Lines 124-131: the validity check, then the deferred Close calls.
UpValidate ==
    /\ upc = "L125"
    /\ UNCHANGED fsVars
    /\ IF IsValidSQLiteFile(tmp.files[newSqliteBaseDir][baseSqliteFile])
       THEN /\ upc' = "L134"
            /\ handles' = handles \ closureHandles
            /\ evs' = evs \cup {"valid"}
            /\ UNCHANGED <<uret, done>>
       ELSE Return("err126") /\ UNCHANGED evs
    /\ UNCHANGED <<oldMeta, rd, branch, faulted, callHist, notUp>>

\* Variant of lines 134-144: old is removed right after the rename, before
\* the sync of the parent directory.
UpRename_RemoveBeforeSync ==
    /\ upc = "L134"
    /\ IF dirExists(new)
       THEN /\ UNCHANGED <<fsVars, evs>>
            /\ Return("err135")
       ELSE /\ new' = tmp
            /\ tmp' = AbsentTree
            /\ UNCHANGED old
            /\ upc' = "L142"
            /\ evs' = evs \cup {"rename"}
            /\ UNCHANGED <<uret, handles, done>>
    /\ UNCHANGED <<oldMeta, rd, branch, faulted, callHist, notUp>>

\* Line 134: os.Rename(newTmpDir, new); rename(2) fails when the target is
\* a directory that is not empty.
UpRename ==
    /\ upc = "L134"
    /\ IF dirExists(new)
       THEN /\ UNCHANGED <<fsVars, evs>>
            /\ Return("err135")
       ELSE /\ new' = tmp
            /\ tmp' = AbsentTree
            /\ UNCHANGED old
            /\ upc' = "L137"
            /\ evs' = evs \cup {"rename"}
            /\ UNCHANGED <<uret, handles, done>>
    /\ UNCHANGED <<oldMeta, rd, branch, faulted, callHist, notUp>>

\* Line 137: syncDirParentMaybe(new).
UpSyncParent ==
    /\ upc = "L137"
    /\ upc' = "L142"
    /\ evs' = evs \cup {"sync"}
    /\ UNCHANGED <<fsVars, oldMeta, rd, handles, uret, branch, faulted, upHist,
                   notUp>>

\* removeDirSync(dir): os.RemoveAll(dir), then the parent directory is
\* synced.
removeDirSyncSteps(o) == oldRemoveSteps(o)

\* Line 142: removeDirSync(old): one step of the removal, then the sync of
\* the parent directory.
UpRemoveDirSync ==
    /\ upc = "L142"
    /\ \E o \in removeDirSyncSteps(old) :
          /\ old' = o
          /\ upc' = IF o.exists THEN "L142" ELSE "L142s"
    /\ oldSame' = (oldSame /\ old' = old)
    /\ UNCHANGED <<tmp, new, upLocals, hist0, done, notUp>>

\* Lines 142-146: the removal is synced and Upgrade returns nil.
UpReturnOK ==
    /\ upc = "L142s"
    /\ UNCHANGED fsVars
    /\ Return("nil")
    /\ UNCHANGED <<oldMeta, rd, branch, faulted, evs, callHist, notUp>>

\* The error Upgrade returns when the filesystem call it is at fails.
FaultErr ==
    [L31 |-> "err32", L37 |-> "err40", L45 |-> "err46", L53 |-> "err54",
     L65 |-> "err66", L69 |-> "err71", L81 |-> "err82", L88 |-> "err89",
     L96 |-> "err98", L104 |-> "err106", L119 |-> "err120",
     L134 |-> "err135", L137 |-> "err138", L142 |-> "err143",
     L142s |-> "err143"]

\* Variant: a failure after the rename takes new away again.
UpFault_Rollback ==
    /\ upc \in DOMAIN FaultErr
    /\ upc = "L37" => dirExists(old)
    /\ faulted' = TRUE
    /\ new' = IF upc \in {"L137", "L142", "L142s"} THEN AbsentTree ELSE new
    /\ UNCHANGED <<old, tmp>>
    /\ Return(FaultErr[upc])
    /\ UNCHANGED <<oldMeta, rd, branch, evs, callHist, notUp>>

\* A filesystem call fails and Upgrade returns its error.
UpFault ==
    /\ upc \in DOMAIN FaultErr
    /\ upc = "L37" => dirExists(old)
    /\ faulted' = TRUE
    /\ UNCHANGED fsVars
    /\ Return(FaultErr[upc])
    /\ UNCHANGED <<oldMeta, rd, branch, evs, callHist, notUp>>

\* The phases of an invocation: the cleanup and the tests of lines 28-65,
\* the construction under the temporary root once it exists, the time between the rename
\* and the removal of old, the removal of old.
phase(pc) ==
    CASE pc \in {"L30", "L31", "L37", "L65"} -> "cleanup"
      [] pc \in {"L69", "L81", "L88", "L96", "L104", "L119", "L125", "L134"}
            -> "build"
      [] pc = "L137" -> "renamed"
      [] pc \in {"L45", "L53", "L142", "L142s"} -> "remove"

\* The errors of lines 137-144, returned after the rename.
PostCommitErrs == {"err138", "err143"}

\* The process dies inside Upgrade: the trees stay as they are.
UpCrash ==
    /\ upc \notin {"idle", "returned"}
    /\ upc' = "idle"
    /\ crashAt' = phase(upc)
    /\ oldMeta' = NoMeta /\ rd' = NoReader /\ handles' = {}
    /\ uret' = "none" /\ branch' = "none" /\ faulted' = FALSE
    /\ newC' = new /\ oldK' = oldKind(old) /\ tmpK' = tmp.exists
    /\ oldSame' = TRUE
    /\ evs' = {} /\ lastPost' = FALSE
    /\ UNCHANGED <<fsVars, old0, new0, done, again, notUp>>

\* The caller goes on after Upgrade returned.
UpgradeDone ==
    /\ upc = "returned"
    /\ upc' = "idle"
    /\ oldMeta' = NoMeta /\ rd' = NoReader /\ handles' = {}
    /\ uret' = "none" /\ branch' = "none" /\ faulted' = FALSE
    /\ newC' = new /\ oldK' = oldKind(old) /\ tmpK' = tmp.exists
    /\ oldSame' = TRUE
    /\ evs' = {} /\ lastPost' = (uret \in PostCommitErrs)
    /\ UNCHANGED <<fsVars, old0, new0, crashAt, done, again, notUp>>

----
\* Specifications.

FetchIdle ==
    /\ fpc = "idle" /\ payload = <<>> /\ mode = "raw" /\ written = {}
    /\ stagingExists = FALSE /\ stagingOpen = FALSE /\ staging = <<>>
    /\ cwSet = FALSE /\ cwCount = 0 /\ fpos = 0 /\ compressed = FALSE
    /\ sink = <<>> /\ fret = "none" /\ dl = "none" /\ wfault = FALSE
    /\ nTemp = 0 /\ wr = WrIdle /\ conc = ConcIdle
    /\ statOK = 0 /\ statFail = 0 /\ statBytes = 0
    /\ ok0 = 0 /\ fail0 = 0 /\ bytes0 = 0

SelIdle == selIn = <<>> /\ selOut = NoMeta

UpLocalsIdle ==
    /\ upc = "idle" /\ oldMeta = NoMeta /\ rd = NoReader /\ handles = {}
    /\ uret = "none" /\ branch = "none" /\ faulted = FALSE /\ evs = {}
    /\ crashAt = "none" /\ done = NotDone /\ again = FALSE /\ lastPost = FALSE

UpIdle ==
    /\ UpLocalsIdle
    /\ old = AbsentOld /\ tmp = AbsentTree /\ new = AbsentTree
    /\ old0 = old /\ new0 = new
    /\ newC = new /\ oldK = oldKind(old) /\ tmpK = tmp.exists /\ oldSame = TRUE

\* Downloader.Do, called again and again.
InitFetch == FetchIdle /\ SelIdle /\ UpIdle
NextFetch ==
    \/ ResetStats
    \/ DoCreateTemp
    \/ DoCreateTempFail
    \/ WriteAt
    \/ DownloadOK
    \/ DownloadFail
    \/ DoIsGzip
    \/ DoCopy
    \/ DoCopyWriteFail
    \/ DoClose
    \/ DoRemove
    \/ DoReturn
    \/ DoDone
SpecFetch == InitFetch /\ [][NextFetch]_vars

\* Downloader.Do with a storage client whose goroutines call WriteAt side
\* by side, the download succeeding.
InitWriters == InitFetch
NextWriters ==
    \/ DoCreateTemp
    \/ WriteAtWrite
    \/ WriteAtCount
    \/ DownloadOK
    \/ DoIsGzip
    \/ DoCopy
    \/ DoClose
    \/ DoRemove
    \/ DoReturn
    \/ DoDone
SpecWriters == InitWriters /\ [][NextWriters]_vars

\* Downloader.Do called once in each of several goroutines, no ResetStats.
InitConc == InitFetch
NextConc ==
    \/ ConcCreateTemp
    \/ ConcBody
    \/ ConcStats
    \/ ConcBytes
SpecConc == InitConc /\ [][NextConc]_vars

\* getNewest7Snapshot on every directory of distinct records.
InitSelect ==
    /\ FetchIdle /\ UpIdle
    /\ selIn \in {s \in SeqsUpTo(SelMetas, MaxSnaps) : Injective(s)}
    /\ selOut = NoMeta
NextSelect == SelGetNewest
SpecSelect == InitSelect /\ [][NextSelect]_vars

\* Upgrade, called again and again on the same pair of paths, with crashes
\* and failing filesystem calls.  new is absent or a complete tree before
\* the first call; tmpName(new) may be left over from an earlier run.
InitUpgrade ==
    /\ FetchIdle /\ SelIdle /\ UpLocalsIdle
    /\ old \in OldRoots
    /\ \E pair \in {<<AbsentTree, AbsentTree>>, <<StaleTmp, AbsentTree>>,
                     <<AbsentTree, PreNew>>} :
          tmp = pair[1] /\ new = pair[2]
    /\ old0 = old /\ new0 = new
    /\ newC = new /\ oldK = oldKind(old) /\ tmpK = tmp.exists /\ oldSame = TRUE
NextUpgrade ==
    \/ UpgradeCall
    \/ UpCheckTmp
    \/ UpRemoveTmp
    \/ UpTrivial
    \/ UpRemoveOldEmpty
    \/ UpRemoveOldExists
    \/ UpMkdirTmp
    \/ UpGetNewest
    \/ UpMkdirSnap
    \/ UpWriteMeta
    \/ UpCreateBase
    \/ UpOpenState
    \/ UpCopy
    \/ UpValidate
    \/ UpRename
    \/ UpSyncParent
    \/ UpRemoveDirSync
    \/ UpReturnOK
    \/ UpFault
    \/ UpCrash
    \/ UpgradeDone
SpecUpgrade == InitUpgrade /\ [][NextUpgrade]_vars

----
\* ---------------------------------------------------------------------
\* Properties
\* ---------------------------------------------------------------------

\* A complete new-format tree: the snapshot directory with its meta file,
\* marked full, and a valid base file in the generation directory.
FullyFormed(t) ==
    /\ t.exists /\ t.gens /\ t.gen /\ t.snap # <<>>
    /\ t.files["snap"][metaFileName].k = "meta"
    /\ t.files["snap"][metaFileName].m.Full
    /\ t.files["snap"][metaFileName].m.SnapshotMeta.ID = t.snap
    /\ t.files["gen"][baseSqliteFile].k = "bytes"
    /\ Take(t.files["gen"][baseSqliteFile].b, Len(sqliteHeader)) = sqliteHeader

\* The order on (term, index, id): s is lexicographically greater than t.
LexGreater(s, t) ==
    \E i \in 1..Len(s) :
        /\ \A j \in 1..(i - 1) : j <= Len(t) /\ s[j] = t[j]
        /\ (i > Len(t) \/ s[i] > t[i])

KeyGreater(a, b) ==
    \/ a.Term > b.Term
    \/ a.Term = b.Term /\ a.Index > b.Index
    \/ a.Term = b.Term /\ a.Index = b.Index /\ LexGreater(a.ID, b.ID)

\* The records of the snapshots under o, and whether o can be migrated: it
\* exists, every meta file decodes, and the greatest record's state file is
\* a complete stream of a valid database.
Records(o) == {o.ent[id].meta : id \in {i \in DOMAIN o.ent : o.ent[i].meta.k = "rec"}}
Greatest(R) == CHOOSE m \in R : \A n \in R \ {m} : KeyGreater(m, n)
Migratable(o) ==
    /\ o.exists
    /\ \A id \in DOMAIN o.ent : o.ent[id].meta.k # "corrupt"
    /\ Records(o) # {}
    /\ o.ent[Greatest(Records(o)).ID].state = "good"

crashed == crashAt # "none"

PreCommitErrs ==
    {"err66", "err71", "err76", "err82", "err89", "err98", "err106",
     "err116", "err120", "err126"}

\* C1: in every state, crash points included, old is as it was before the
\* first call, or new exists and is complete, or there was nothing to
\* migrate (old absent or empty from the start).
C1_CrashSafe ==
    \/ old0.exists /\ old = old0
    \/ FullyFormed(new)
    \/ oldKind(old0) \in {"absent", "empty"}

\* C1 witness: a crash has left old partly removed, new having been made by
\* Upgrade.
C1_Witness ==
    /\ upc = "idle" /\ crashed
    /\ old.exists /\ old # old0 /\ ~new0.exists /\ new.exists

\* C2: once some invocation has been cut short by a crash, an invocation on
\* a migratable old that returns with no filesystem call having failed
\* returns nil, with new complete and old and the temporary root gone.
C2_Resumable ==
    (upc = "returned" /\ crashed /\ ~faulted /\ Migratable(old0))
        => /\ uret = "nil"
           /\ FullyFormed(new)
           /\ ~old.exists
           /\ ~tmp.exists

\* C2 witness: such a return, the crash having come during the construction
\* and the invocation having found the temporary root it left.
C2_Witness ==
    /\ upc = "returned" /\ crashAt = "build" /\ ~faulted /\ Migratable(old0)
    /\ branch = "migrate" /\ tmpK /\ uret = "nil"

\* C3: when the download succeeds and delivers P compressed, or P raw with
\* P not starting with gzipMagic, and no write to w fails, Do returns nil
\* and w holds exactly P.
C3_Transparent ==
    (/\ fpc = "returned" /\ dl = "ok" /\ ~wfault
     /\ (mode = "gzip" \/ Take(payload, Len(gzipMagic)) # gzipMagic))
        => (fret = "nil" /\ sink = payload)

\* C4: when the download fails, Do returns an error, num_downloads_fail is
\* one more than when Do was called, and num_downloads_ok and
\* download_bytes are what they were.
C4_DownloadFailure ==
    (fpc = "returned" /\ dl = "fail")
        => /\ fret = "err"
           /\ statFail = fail0 + 1
           /\ statOK = ok0
           /\ statBytes = bytes0

\* C4 witness: a failed download that had written bytes to the file.
C4_Witness == fpc = "returned" /\ dl = "fail" /\ cwCount > 0

\* C5: once an invocation has returned nil, the trees stay as that return
\* left them (old and the temporary root absent, new as it was), and every
\* later invocation returns nil.
C5_Idempotent ==
    done.set
        => /\ old = done.old /\ tmp = done.tmp /\ new = done.new
           /\ ~old.exists /\ ~tmp.exists
           /\ (upc = "returned" => uret = "nil")

\* C5 witness: an invocation begun after a successful one has returned.
C5_Witness == upc = "returned" /\ again /\ new.exists

\* C6: the record getNewest7Snapshot returns is one of the directory's
\* records and is greater, on (term, index, id), than every other one,
\* whatever the order of enumeration.
C6_Selection ==
    selOut # NoMeta
        => /\ selOut \in Range(selIn)
           /\ \A m \in Range(selIn) \ {selOut} : KeyGreater(selOut, m)

\* C6 witness: three records, two of them tied on term and index.
C6_Witness ==
    /\ selOut # NoMeta /\ Len(selIn) = 3
    /\ \E i \in 1..3 : /\ selIn[i] # selOut
                       /\ selIn[i].Term = selOut.Term
                       /\ selIn[i].Index = selOut.Index

\* C7: when Upgrade returns an error of lines 64-131, no step of the
\* invocation has changed old, and new does not exist.
C7_PreCommitFailure ==
    (upc = "returned" /\ uret \in PreCommitErrs)
        => (oldSame /\ ~new.exists /\ new = newC)

\* C7 witness: the validity check failed, the temporary root is left.
C7_Witness == upc = "returned" /\ uret = "err126" /\ tmp.exists

\* C8: in an invocation that found old non-empty and new existing, new is
\* never changed, and when the invocation returns with no filesystem call
\* having failed it returns nil and old is gone.
C8_NewExists ==
    (upc # "idle" /\ oldK = "nonempty" /\ newC.exists)
        => /\ new = newC
           /\ (upc = "returned" /\ ~faulted => uret = "nil" /\ ~old.exists)

\* C8 witness: such an invocation has returned nil.
C8_Witness ==
    upc = "returned" /\ oldK = "nonempty" /\ newC.exists /\ uret = "nil"

\* C9: an invocation that found old absent or empty and returns with no
\* filesystem call having failed returns nil, with old gone, new as it was
\* (not created) and no temporary root.
C9_NothingToMigrate ==
    (upc = "returned" /\ oldK \in {"absent", "empty"} /\ ~faulted)
        => /\ uret = "nil"
           /\ ~old.exists
           /\ new = newC
           /\ ~tmp.exists

\* C9 witness: such a return, a stale temporary root having been there and
\* new not.
C9_Witness ==
    /\ upc = "returned" /\ oldK = "empty" /\ ~faulted /\ tmpK
    /\ ~new.exists

\* C10 as stated: after a migrating Upgrade that selected ID returns nil,
\* the directory generations/<first>/ID of new holds the meta file and the
\* base file.
C10_BothInSnapshotDir ==
    (upc = "returned" /\ uret = "nil" /\ branch = "migrate")
        => /\ new.snap = oldMeta.ID
           /\ new.files["snap"][metaFileName].k # "none"
           /\ new.files["snap"][baseSqliteFile].k # "none"

\* C10 amended: the directory generations/<first>/ID of new holds the meta
\* file, and the generation directory generations/<first> holds the base
\* file; neither file is anywhere else.
C10_Layout ==
    (upc = "returned" /\ uret = "nil" /\ branch = "migrate")
        => /\ new.gens /\ new.gen
           /\ new.snap = oldMeta.ID
           /\ new.files["snap"][metaFileName] = MetaFile(newMeta(oldMeta))
           /\ new.files["gen"][baseSqliteFile].k = "bytes"
           /\ new.files["gen"][metaFileName].k = "none"
           /\ new.files["snap"][baseSqliteFile].k = "none"

\* C10 witness: a migrating Upgrade has returned nil.
C10_Witness == upc = "returned" /\ uret = "nil" /\ branch = "migrate"

\* C11: once every Do invocation has returned, num_downloads_ok is the
\* number of invocations that returned nil and num_downloads_fail the
\* number that returned an error, whatever the interleaving.
C11_ExactlyOnce ==
    (\A p \in Procs : conc[p].pc \in {"idle", "returned"})
        => LET R == {p \in Procs : conc[p].pc = "returned"} IN
           /\ statOK = Cardinality({p \in R : conc[p].err = "nil"})
           /\ statFail = Cardinality({p \in R : conc[p].err = "err"})
           /\ statOK + statFail = Cardinality(R)

\* C11 witness: every invocation has returned, one with nil and one with an
\* error.
C11_Witness ==
    /\ \A p \in Procs : conc[p].pc = "returned"
    /\ \E p, q \in Procs : conc[p].err = "nil" /\ conc[q].err = "err"

\* C12: Do makes at most one temporary file; the file is never removed
\* while its handle is open; when Do has returned the file is gone and the
\* handle closed.
C12_StagingLifecycle ==
    /\ nTemp <= 1
    /\ stagingOpen => stagingExists
    /\ fpc = "returned" => (~stagingExists /\ ~stagingOpen)

\* C12 witness: Do returned an error after the download had succeeded.
C12_Witness == fpc = "returned" /\ nTemp = 1 /\ dl = "ok" /\ fret = "err"

\* C13: when Do returns nil, download_bytes has grown by the number of
\* bytes of the object written through cw, the storage client's goroutines
\* calling WriteAt side by side.
C13_BytesCounted ==
    (fpc = "returned" /\ fret = "nil")
        => statBytes = bytes0 + Len(Object(payload, mode))

\* C14: when isGzip has returned without error the read position of f is
\* 0, and compressed is true exactly when the file begins with gzipMagic.
C14_SniffAtStart ==
    fpc = "copy"
        => /\ fpos = 0
           /\ compressed <=> (/\ Len(staging) >= Len(gzipMagic)
                               /\ Take(staging, Len(gzipMagic)) = gzipMagic)

\* C15: nothing is written to w unless Download has returned nil.
C15_NoOutputOnFailure == dl # "ok" => sink = <<>>

\* C15 witness: Do has returned after a download that failed with bytes in
\* the file.
C15_Witness == fpc = "returned" /\ dl = "fail" /\ staging # <<>> /\ sink = <<>>

\* Both files of a new-format tree are there.
BothFiles(t) ==
    /\ t.files[newMetaDir][metaFileName].k = "meta"
    /\ t.files[newSqliteBaseDir][baseSqliteFile].k = "bytes"

\* C16: the only step that changes new is the rename of line 134, made
\* when new does not exist and giving it the tree of the temporary root;
\* and a new that Upgrade made holds the meta file and the base file.
C16_NoPartialRoot ==
    [][/\ new' # new => (upc = "L134" /\ ~new.exists /\ new' = tmp)
       /\ (new'.exists /\ ~new0.exists) => BothFiles(new')]_vars

\* C16 witness: the process died right after the rename; new, made by
\* Upgrade, is there with old still whole.
C16_Witness ==
    /\ upc = "idle" /\ crashAt = "renamed"
    /\ ~new0.exists /\ new.exists /\ old = old0

\* C17: when Upgrade returns an error of lines 137-144, new is complete
\* and the temporary root is gone; the invocation that follows leaves new
\* as it is and, when no filesystem call fails, returns nil with old gone.
C17_PostCommitFailure ==
    /\ (upc = "returned" /\ uret \in PostCommitErrs)
          => (FullyFormed(new) /\ ~tmp.exists)
    /\ (lastPost /\ upc # "idle")
          => /\ new = newC
             /\ FullyFormed(new)
             /\ (upc = "returned" /\ ~faulted) => (uret = "nil" /\ ~old.exists)

\* C17 witness: the invocation after such a failure found part of old
\* left, removed it and returned nil.
C17_Witness ==
    /\ lastPost /\ upc = "returned" /\ uret = "nil" /\ branch = "exists"
    /\ old0 # AbsentOld /\ ~old.exists

\* C18: when Upgrade is at the rename of line 134 or at a removal of old
\* (lines 45, 53, 142) it holds no file open.
C18_HandlesClosed ==
    upc \in {"L134", "L45", "L53", "L142"} => handles = {}

\* C18 witness: Upgrade is at the rename, having read two meta files.
C18_Witness ==
    /\ upc = "L134" /\ "valid" \in evs
    /\ \A id \in SnapIDs : old.ent[id].meta.k = "rec"

\* C19: in a migrating invocation the rename comes after the validity
\* check has passed, the sync after the rename, and old is changed only
\* after both; when the rename or the sync fails old is left as it was.
C19_CommitOrder ==
    branch = "migrate"
        => /\ "rename" \in evs => "valid" \in evs
           /\ "sync" \in evs => "rename" \in evs
           /\ ~oldSame => {"rename", "sync"} \subseteq evs
           /\ (upc = "returned" /\ uret \in {"err135", "err138"}) => oldSame
           /\ "rename" \in evs
                 => IsValidSQLiteFile(new.files[newSqliteBaseDir][baseSqliteFile])

\* C19 witness: the sync of the parent failed after the rename; old has not
\* been touched.
C19_Witness ==
    /\ upc = "returned" /\ uret = "err138" /\ branch = "migrate"
    /\ oldSame /\ new.exists /\ old.exists

\* The records under o whose state file is a complete stream of a valid
\* database.
ValidRecords(o) == {m \in Records(o) : o.ent[m.ID].state = "good"}
AllDecode(o) == \A id \in DOMAIN o.ent : o.ent[id].meta.k # "corrupt"

StateErrs == {"err106", "err116", "err120", "err126"}

\* C20 as stated: a migrating invocation on an old that holds an intact
\* snapshot returns nil, new holding the greatest intact snapshot.
C20_NewestValid ==
    (/\ upc = "returned" /\ ~faulted /\ branch = "migrate"
     /\ AllDecode(old0) /\ ValidRecords(old0) # {})
        => /\ uret = "nil"
           /\ new.files[newMetaDir][metaFileName]
                 = MetaFile(newMeta(Greatest(ValidRecords(old0))))
           /\ new.files[newSqliteBaseDir][baseSqliteFile] = BytesFile(GoodDB)

\* C20 amended: a migrating invocation takes the greatest record whatever
\* its state file is.  When that state file is intact new holds the record,
\* marked full, and the decompressed database; when it is not, Upgrade
\* returns an error, new is not made and old is as it was.
C20_NewestByMeta ==
    (/\ upc = "returned" /\ ~faulted /\ branch = "migrate"
     /\ AllDecode(old0) /\ Records(old0) # {})
        => LET g == Greatest(Records(old0)) IN
           IF old0.ent[g.ID].state = "good"
           THEN /\ uret = "nil"
                /\ new.files[newMetaDir][metaFileName] = MetaFile(newMeta(g))
                /\ new.files[newSqliteBaseDir][baseSqliteFile] = BytesFile(GoodDB)
                /\ ~old.exists
           ELSE /\ uret \in StateErrs
                /\ ~new.exists
                /\ old = old0

\* C20 witness: Upgrade failed on the truncated state file of the greatest
\* record although another snapshot is intact.
C20_Witness ==
    /\ upc = "returned" /\ ~faulted /\ branch = "migrate" /\ uret = "err120"
    /\ AllDecode(old0) /\ ValidRecords(old0) # {}
====
